---- MODULE Spec2Model ----
(***************************************************************************)
(* Stock ledger, sale workflow and purchase workflow of Quickstock-Express *)
(* (models/Stock.js, models/Sale.js, models/Purchase.js, saleController,   *)
(* purchaseController, productController).                                 *)
(*                                                                         *)
(* The store is MongoDB reached through mongoose.  A handler is cut into   *)
(* one action per awaited storage call that can interleave with another    *)
(* request; the synchronous code between two awaits runs atomically on the *)
(* node event loop.  A multi-document transaction reads from the snapshot  *)
(* taken by its first operation, buffers its writes until commit, and a    *)
(* write to a document that another open transaction has written, or that  *)
(* was changed after the snapshot, fails with a write conflict.  A write   *)
(* outside a transaction waits while an open transaction holds the         *)
(* document.                                                               *)
(***************************************************************************)
EXTENDS Integers, Sequences, FiniteSets, TLC

\* ---- bounds of the model ------------------------------------------------
MaxRequests == 2
MaxProducts == 2
MaxItems == 2
MaxQty == 2

Users == {"u1", "u2"}
Procs == {1, 2}
ProductIds == 1..MaxProducts
UnitPrice == 3
UnitCost == 2
InitialStocks == {-1, 0, 3}
\* "" is a request without paymentMethod; "card" is outside the schema enum
PaymentMethods == {"", "cash", "card"}
\* a value for totalPrice / totalAmount put in the request by the client
ClientTotals == {0, 7}

VARIABLES
    db,      \* committed contents of the collections
    req,     \* per request slot: position in the handler and its locals
    nreq,    \* number of requests that got past validation (ObjectId source)
    last,    \* the answer given by the step just taken, if it gave one
    presale, \* history variable: per sale, the stock collection it was
             \* committed on
    calls,   \* history variable: the stock collection that direct calls of
             \* recordMovement started on, and the calls the store has applied
    issued   \* history variable: the invoice numbers that the pre-save hook
             \* generated for sales that were committed

vars == <<db, req, nreq, last, presale, calls, issued>>

\* ---- data model ---------------------------------------------------------
\* models/Stock.js stockMovementSchema.movementType enum
MovementTypes == {"purchase", "sale", "adjustment", "return"}
\* models/Sale.js / models/Purchase.js paymentMethod enum
PaymentMethodEnum == {"cash", "online"}
\* models/Purchase.js purchaseStatus enum
PurchaseStatusEnum == {"ordered", "received", "cancelled"}

EmptyDb == [products |-> <<>>, stock |-> <<>>, sales |-> <<>>, purchases |-> <<>>]

Remove(f, k) == [x \in DOMAIN f \ {k} |-> f[x]]

\* variant: the caller's source document is not passed on
MovementEntry_NoSource(type, quantity, sourceDocument, sourceModel) ==
    [movementType |-> type, quantity |-> quantity,
     sourceDocument |-> 0, sourceModel |-> sourceModel]

MovementEntry(type, quantity, sourceDocument, sourceModel) ==
    [movementType |-> type, quantity |-> quantity,
     sourceDocument |-> sourceDocument, sourceModel |-> sourceModel]

\* variant: every movement type adds
UpdateQuantity_Unsigned(type, quantity) == quantity

\* models/Stock.js recordMovement, lines 85-98: the sign of the $inc
UpdateQuantity(type, quantity) ==
    IF type = "sale" THEN 0 - quantity ELSE quantity

\* variant: the entry is put in front of the history
Push_Front(history, entry) == <<entry>> \o history

\* models/Stock.js line 130: $push adds the entry at the end of the array
Push(history, entry) == Append(history, entry)

\* variant: no floor check after the update
recordMovement_NoFloor(stock, productId, type, quantity, sourceDocument, sourceModel) ==
    IF quantity <= 0 THEN [error |-> "InvalidQuantity", stock |-> stock]
    ELSE
      LET entry == [movementType |-> type, quantity |-> quantity,
                    sourceDocument |-> sourceDocument, sourceModel |-> sourceModel]
          inc == IF type = "sale" THEN 0 - quantity ELSE quantity
      IN [error |-> "none",
          stock |-> [stock EXCEPT ![productId] =
                        [currentStock |-> @.currentStock + inc,
                         movementHistory |-> Append(@.movementHistory, entry)]]]

\* models/Stock.js recordMovement applied to a stock collection (the
\* committed one, or a transaction's view).  The findOneAndUpdate has
\* upsert: true, so a missing record is created; the floor check runs after
\* the update was applied, so the returned collection carries the update
\* even when the call throws.
recordMovement(stock, productId, type, quantity, sourceDocument, sourceModel) ==
    IF quantity <= 0 THEN [error |-> "InvalidQuantity", stock |-> stock]
    ELSE IF type \notin MovementTypes
    THEN [error |-> "InvalidMovementType", stock |-> stock]
    ELSE
      LET entry == MovementEntry(type, quantity, sourceDocument, sourceModel)
          inc == UpdateQuantity(type, quantity)
          updated ==
            IF productId \in DOMAIN stock
            THEN [stock EXCEPT ![productId] =
                    [currentStock |-> @.currentStock + inc,
                     movementHistory |-> Push(@.movementHistory, entry)]]
            ELSE stock @@ (productId :>
                    [currentStock |-> inc, movementHistory |-> <<entry>>])
      IN [error |-> IF updated[productId].currentStock < 0
                    THEN "InsufficientStock" ELSE "none",
          stock |-> updated]

\* ---- invoice numbers (models/Sale.js pre-save hook) ----------------------
\* An invoice number is modelled by the characters after "INV-", a sequence
\* of decimal digits.
PadWidth == 6
Radix == 10

RECURSIVE Digits(_)
Digits(n) == IF n < Radix THEN <<n>> ELSE Append(Digits(n \div Radix), n % Radix)

RECURSIVE parseInt(_)
parseInt(d) ==
    IF Len(d) = 0 THEN 0
    ELSE parseInt(SubSeq(d, 1, Len(d) - 1)) * Radix + d[Len(d)]

padStart(d) ==
    IF Len(d) >= PadWidth THEN d
    ELSE [i \in 1..PadWidth |->
            IF i <= PadWidth - Len(d) THEN 0 ELSE d[i - (PadWidth - Len(d))]]

\* string order used by sort({ invoiceNumber: -1 })
LexLess(a, b) ==
    \E i \in 1..(Len(a) + 1) :
        /\ \A j \in 1..(i - 1) : j <= Len(b) /\ a[j] = b[j]
        /\ \/ i = Len(a) + 1 /\ Len(b) >= i
           \/ i <= Len(a) /\ i <= Len(b) /\ a[i] < b[i]

NextInvoiceNumber(sales) ==
    IF DOMAIN sales = {} THEN padStart(Digits(1))
    ELSE
      LET lastSale == CHOOSE s \in DOMAIN sales :
                        \A t \in DOMAIN sales :
                            ~LexLess(sales[s].invoiceNumber, sales[t].invoiceNumber)
      IN padStart(Digits(parseInt(sales[lastSale].invoiceNumber) + 1))

\* ---- request slots -------------------------------------------------------
NoDoc == [items |-> <<>>]

NoCalls == [start |-> <<>>, applied |-> <<>>]

IdleReq ==
    [pc |-> "idle", op |-> "none", user |-> "none", id |-> 0, body |-> NoDoc,
     doc |-> NoDoc, idx |-> 0, snap |-> EmptyDb, view |-> EmptyDb, wset |-> {}]

\* an answer names the operation, the caller, the document the request
\* addressed or created, the outcome, and the products whose stock record the
\* response body carries; for a handler that called mongoose.startSession()
\* and session.startTransaction() it also tells what the handler did with the
\* transaction ("committed", "aborted") and with the session ("ended", or
\* "open" when it answered without session.endSession())
NoAnswer ==
    [op |-> "none", by |-> "none", id |-> 0, result |-> "none",
     data |-> {}, early |-> FALSE, tx |-> "none", session |-> "none"]

\* the handler in slot p answers: the slot is free again
Answer(p, op, id, result) ==
    /\ req' = [req EXCEPT ![p] = IdleReq]
    /\ last' = [NoAnswer EXCEPT !.op = op, !.by = req[p].user, !.id = id,
                                !.result = result]

\* a handler answers before its first interleaving point: it never held a
\* slot and the request is not counted
Reject(op, user, id, result) ==
    /\ req' = req
    /\ nreq' = nreq
    /\ last' = [NoAnswer EXCEPT !.op = op, !.by = user, !.id = id,
                                !.result = result, !.early = TRUE]

\* the handler in slot p answers after commitTransaction or abortTransaction,
\* and endSession
AnswerTx(p, op, id, result, tx) ==
    /\ req' = [req EXCEPT ![p] = IdleReq]
    /\ last' = [NoAnswer EXCEPT !.op = op, !.by = req[p].user, !.id = id,
                                !.result = result, !.tx = tx,
                                !.session = "ended"]

\* a handler that started its transaction answers before its first
\* interleaving point, after abortTransaction
RejectTx(op, user, id, result, session) ==
    /\ req' = req
    /\ nreq' = nreq
    /\ last' = [NoAnswer EXCEPT !.op = op, !.by = user, !.id = id,
                                !.result = result, !.early = TRUE,
                                !.tx = "aborted", !.session = session]

\* A request answered early changes nothing but `last`: what can follow it
\* is what can follow the state before it, so a behaviour is not extended
\* past it.
Live == ~last.early

\* the handler in slot p is at position pc
At(p, pc) == Live /\ req[p].pc = pc

\* requests take the lowest free slot (slots are interchangeable)
FreeSlot(p) ==
    /\ At(p, "idle")
    /\ \A q \in Procs : q < p => req[q].pc # "idle"

\* the bound is on the requests that get past validation; beyond it, the
\* only request followed is one that the state of a document of the caller
\* turns away
Admit == nreq < MaxRequests

\* the ids a request on a document may name: those of the collection, and 0
\* for an id that no document of the collection has
Targets(coll) == DOMAIN coll \cup {0}

\* positions at which a slot has an open transaction with a snapshot
TxPcs == {"sale_presave", "sale_insert", "sale_move", "sale_commit",
          "cancel_move", "cancel_delete", "cancel_commit",
          "receive_move", "receive_save", "receive_commit"}

InTx(q) == req[q].pc \in TxPcs

DocAt(d, key) ==
    LET coll == IF key[1] = "stock" THEN d.stock
                ELSE IF key[1] = "sale" THEN d.sales ELSE d.purchases
    IN IF key[2] \in DOMAIN coll THEN <<coll[key[2]]>> ELSE <<>>

\* an open transaction of another request holds the document
Locked(p, key) == \E q \in Procs \ {p} : InTx(q) /\ key \in req[q].wset

\* WiredTiger write conflict for a write by the transaction of p
WriteConflict(p, key) ==
    \/ Locked(p, key)
    \/ DocAt(db, key) # DocAt(req[p].snap, key)

MergeColl(committed, viewed, kind, wset) ==
    LET keys == {k \in DOMAIN committed \cup DOMAIN viewed :
                    IF <<kind, k>> \in wset THEN k \in DOMAIN viewed
                                             ELSE k \in DOMAIN committed}
    IN [k \in keys |-> IF <<kind, k>> \in wset THEN viewed[k] ELSE committed[k]]

\* session.commitTransaction(): the buffered writes become visible at once
CommitTransaction(d, view, wset) ==
    [products |-> d.products,
     stock |-> MergeColl(d.stock, view.stock, "stock", wset),
     sales |-> MergeColl(d.sales, view.sales, "sale", wset),
     purchases |-> MergeColl(d.purchases, view.purchases, "purchase", wset)]

\* variant: the catch block commits what the transaction has buffered
AbortTransaction_Commits(d, view, wset) == CommitTransaction(d, view, wset)

\* session.abortTransaction(): the buffered writes are dropped
AbortTransaction(d, view, wset) == d

\* the handler in slot p throws inside its transaction: the catch block
\* aborts, ends the session and hands the error to the error middleware
Fail(p, view, wset, result) ==
    /\ db' = AbortTransaction(db, view, wset)
    /\ AnswerTx(p, req[p].op, 0, result, "aborted")

\* ---- createProduct (controllers/productController.js) --------------------
ProductBodies ==
    [initialStock : InitialStocks, isActive : {TRUE}]
    \cup {[initialStock |-> 3, isActive |-> FALSE]}

\* the user who sets up the catalogue; the other user owns a supplier and
\* no product
Owners == {"u1"}

Sellable(d, productId) ==
    d.products[productId].isActive /\ d.stock[productId].currentStock > 0

\* Products are interchangeable: a product that is out of stock or inactive,
\* if the catalogue has one, is the last one created.
CatalogueOrder(d) == \A productId \in DOMAIN d.products : Sellable(d, productId)

\* new Stock({product, currentStock: initialStock}) plus the adjustment entry
NewStock(productId, initialStock) ==
    [currentStock |-> initialStock,
     movementHistory |->
        IF initialStock > 0
        THEN <<MovementEntry("adjustment", initialStock, productId, "Product")>>
        ELSE <<>>]

\* stockSchema: currentStock min 0; stockMovementSchema: quantity min 1
StockValid(s) ==
    /\ s.currentStock >= 0
    /\ \A i \in 1..Len(s.movementHistory) : s.movementHistory[i].quantity >= 1

\* The product and its stock record are written in one transaction that
\* touches only documents it creates, so the handler is one step; the model
\* sets the catalogue up before the first sale or purchase is accepted.
createProduct ==
    \E user \in Owners, body \in ProductBodies :
        LET productId == Cardinality(DOMAIN db.products) + 1
            stock == NewStock(productId, body.initialStock)
        IN /\ Live
           /\ productId <= MaxProducts
           /\ CatalogueOrder(db)
           /\ nreq = 0
           /\ \A p \in Procs : req[p].pc = "idle"
           /\ IF StockValid(stock)
              THEN /\ db' = [db EXCEPT
                            !.products = @ @@ (productId :>
                                [createdBy |-> user, isActive |-> body.isActive]),
                            !.stock = @ @@ (productId :> stock)]
                   /\ last' = [NoAnswer EXCEPT
                                    !.op = "createProduct", !.by = user,
                                    !.id = productId, !.result = "201",
                                    !.tx = "committed", !.session = "ended"]
              ELSE /\ db' = db
                   /\ last' = [NoAnswer EXCEPT
                                    !.op = "createProduct", !.by = user,
                                    !.result = "err:ValidationError",
                                    !.early = TRUE,
                                    !.tx = "aborted", !.session = "ended"]
           /\ UNCHANGED <<req, nreq, presale, calls, issued>>

\* ---- createSale (saleController.js) --------------------------------------
\* the products of the items of a request: one item or MaxItems items, of
\* one product or of n different products
ProductLists ==
    UNION {{[i \in 1..n |-> a] : a \in ProductIds}
           \cup {[i \in 1..n |-> ((a + i - 2) % MaxProducts) + 1] :
                    a \in {b \in ProductIds : n <= MaxProducts}}
           : n \in {1, MaxItems}}

\* request items that pass the field checks; every item carries the
\* totalPrice the client sent
GoodItemLists(clientTotal) ==
    {[i \in 1..Len(l) |->
        [product |-> l[i], quantity |-> MaxQty, unitPrice |-> UnitPrice,
         totalPrice |-> clientTotal]] : l \in ProductLists}

PlainItem == [product |-> 1, quantity |-> MaxQty, unitPrice |-> UnitPrice, totalPrice |-> 0]

\* request items that fail a field check: product missing, quantity missing
\* or zero, quantity negative, unitPrice negative
BadItems ==
    {[PlainItem EXCEPT !.product = 0], [PlainItem EXCEPT !.quantity = 0],
     [PlainItem EXCEPT !.quantity = 0 - 1], [PlainItem EXCEPT !.unitPrice = 0 - 1]}

SaleBody(items, paymentMethod, clientTotal) ==
    [items |-> items, paymentMethod |-> paymentMethod,
     totalAmount |-> clientTotal, invoiceNumber |-> <<>>]

SaleBodies ==
    {SaleBody(l, "cash", 0) : l \in GoodItemLists(0)}
    \cup UNION {{SaleBody(l, "cash", ct) :
                    l \in {m \in GoodItemLists(ct) : Len(m) = MaxItems}}
                : ct \in ClientTotals}
    \cup {SaleBody(<<PlainItem>>, pm, 0) : pm \in PaymentMethods}
    \cup {SaleBody(<<>>, "cash", 0)}
    \cup {SaleBody(<<b>>, "cash", 0) : b \in BadItems}
    \cup {SaleBody(<<PlainItem, b>>, "cash", 0) : b \in BadItems}

\* lines 36-97: the per-item validation and stock pre-check, in item order;
\* d is what the session reads
RECURSIVE CheckSaleItems(_, _, _, _)
CheckSaleItems(items, user, d, i) ==
    IF i > Len(items) THEN "ok"
    ELSE
      LET item == items[i] IN
      IF item.product = 0 \/ item.quantity = 0 THEN "400:ItemFields"
      ELSE IF item.quantity <= 0 THEN "400:InvalidQuantity"
      ELSE IF item.unitPrice < 0 THEN "400:InvalidUnitPrice"
      ELSE IF \/ item.product \notin DOMAIN d.products
              \/ d.products[item.product].createdBy # user
              \/ ~d.products[item.product].isActive
      THEN "400:InvalidProduct"
      ELSE IF \/ item.product \notin DOMAIN d.stock
              \/ d.stock[item.product].currentStock < item.quantity
      THEN "400:InsufficientStock"
      ELSE CheckSaleItems(items, user, d, i + 1)

\* variant: the check for an empty item list is missing
ValidateSale_EmptyItems(body, user, d) ==
    IF body.paymentMethod = "" THEN "400:PaymentMethod"
    ELSE CheckSaleItems(body.items, user, d, 1)

\* lines 25-97
ValidateSale(body, user, d) ==
    IF body.paymentMethod = "" THEN "400:PaymentMethod"
    ELSE IF Len(body.items) = 0 THEN "400:NoItems"
    ELSE CheckSaleItems(body.items, user, d, 1)

\* variant: the totalPrice of the request is kept
WithTotalPrice_Client(items) == items

\* line 96
WithTotalPrice(items) ==
    [i \in 1..Len(items) |->
        [items[i] EXCEPT !.totalPrice = items[i].quantity * items[i].unitPrice]]

\* models/Sale.js line 74
RECURSIVE SumTotalPrice(_, _)
SumTotalPrice(items, i) ==
    IF i > Len(items) THEN 0
    ELSE items[i].totalPrice + SumTotalPrice(items, i + 1)

\* the rejections of lines 72-80 and 87-95 call session.endSession() after
\* abortTransaction; those of lines 25-64 return after abortTransaction only
EndsSession(outcome) == outcome \in {"400:InvalidProduct", "400:InsufficientStock"}

\* lines 11-97 for one request: startSession and startTransaction come first.  The reads of the loop all go through the
\* session, so they see the snapshot taken by the first of them.
createSale_request(p, user, body) ==
    LET outcome == ValidateSale(body, user, db) IN
    IF outcome # "ok"
    THEN RejectTx("createSale", user, 0, outcome,
                  IF EndsSession(outcome) THEN "ended" ELSE "open")
    ELSE /\ req' = [req EXCEPT ![p] =
                [IdleReq EXCEPT
                    !.pc = "sale_presave", !.op = "createSale",
                    !.user = user, !.id = nreq + 1,
                    !.body = [body EXCEPT !.items = WithTotalPrice(body.items)],
                    !.snap = db, !.view = db]]
         /\ last' = NoAnswer
         /\ nreq' = nreq + 1

createSale_validate(p) ==
    /\ FreeSlot(p)
    /\ Admit
    /\ \E user \in Users, body \in SaleBodies : createSale_request(p, user, body)
    /\ UNCHANGED <<db, presale, calls, issued>>

\* models/Sale.js 73-98, reached from new Sale(saleData); sale.save():
\* schema validation, then the pre-save hook, whose findOne is issued
\* without the session and so reads the committed collection
SaleDocument(body, user, sales) ==
    [invoiceNumber |-> IF body.invoiceNumber = <<>>
                       THEN NextInvoiceNumber(sales) ELSE body.invoiceNumber,
     items |-> body.items,
     totalAmount |-> SumTotalPrice(body.items, 1),
     paymentMethod |-> body.paymentMethod,
     createdBy |-> user]

createSale_presave(p) ==
    /\ At(p, "sale_presave")
    /\ IF req[p].body.paymentMethod \notin PaymentMethodEnum
       THEN Fail(p, req[p].view, req[p].wset, "err:ValidationError")
       ELSE /\ db' = db
            /\ req' = [req EXCEPT
                    ![p].pc = "sale_insert",
                    ![p].body = [items |-> <<>>,
                                 invoiceNumber |-> req[p].body.invoiceNumber],
                    ![p].doc = SaleDocument(req[p].body, req[p].user, db.sales)]
            /\ last' = NoAnswer
    /\ UNCHANGED <<nreq, presale, calls, issued>>

InvoiceTaken(sales, invoiceNumber) ==
    \E s \in DOMAIN sales : sales[s].invoiceNumber = invoiceNumber

\* an open transaction of another request has inserted a sale with the number
InvoiceInFlight(p, invoiceNumber) ==
    \E q \in Procs \ {p} :
        /\ InTx(q)
        /\ \E k \in req[q].wset :
            /\ k[1] = "sale"
            /\ k[2] \in DOMAIN req[q].view.sales
            /\ req[q].view.sales[k[2]].invoiceNumber = invoiceNumber

\* the insert of sale.save({ session }); invoiceNumber has a unique index
createSale_insert(p) ==
    /\ At(p, "sale_insert")
    /\ IF InvoiceInFlight(p, req[p].doc.invoiceNumber)
       THEN Fail(p, req[p].view, req[p].wset, "err:WriteConflict")
       ELSE IF InvoiceTaken(db.sales, req[p].doc.invoiceNumber)
       THEN Fail(p, req[p].view, req[p].wset, "err:DuplicateKey")
       ELSE /\ db' = db
            /\ req' = [req EXCEPT
                    ![p].pc = "sale_move", ![p].idx = 1,
                    ![p].view.sales = @ @@ (req[p].id :> req[p].doc),
                    ![p].wset = @ \cup {<<"sale", req[p].id>>}]
            /\ last' = NoAnswer
    /\ UNCHANGED <<nreq, presale, calls, issued>>

\* one Stock.recordMovement(..., session) of a handler loop: item idx of the
\* document, then either the next item or the position after the loop.  A
\* throw lands in the handler's catch: abortTransaction, endSession, next(err).
LedgerStep(p, type, sourceModel, next) ==
    LET item == req[p].doc.items[req[p].idx]
        key == <<"stock", item.product>>
        r == recordMovement(req[p].view.stock, item.product, type,
                            item.quantity, req[p].id, sourceModel)
    IN IF WriteConflict(p, key)
       THEN Fail(p, req[p].view, req[p].wset, "err:WriteConflict")
       ELSE IF r.error # "none"
       THEN Fail(p, [req[p].view EXCEPT !.stock = r.stock],
                 req[p].wset \cup {key}, "err:" \o r.error)
       ELSE /\ db' = db
            /\ req' = [req EXCEPT
                    ![p].view.stock = r.stock,
                    ![p].wset = @ \cup {key},
                    ![p].idx = @ + 1,
                    ![p].pc = IF req[p].idx = Len(req[p].doc.items)
                              THEN next ELSE @]
            /\ last' = NoAnswer

\* lines 104-115
createSale_recordMovement(p) ==
    /\ At(p, "sale_move")
    /\ LedgerStep(p, "sale", "Sale", "sale_commit")
    /\ UNCHANGED <<nreq, presale, calls, issued>>

\* lines 117-122
createSale_commit(p) ==
    /\ At(p, "sale_commit")
    /\ db' = CommitTransaction(db, req[p].view, req[p].wset)
    /\ AnswerTx(p, "createSale", req[p].id, "201", "committed")
    /\ presale' = presale @@ (req[p].id :> db.stock)
    /\ issued' = IF req[p].body.invoiceNumber = <<>>
                 THEN issued \cup {req[p].doc.invoiceNumber} ELSE issued
    /\ UNCHANGED <<nreq, calls>>

\* ---- cancelSale (saleController.js) --------------------------------------
\* lines 223-240
cancelSale_find(p) ==
    /\ FreeSlot(p)
    /\ Admit
    /\ \E user \in Users, saleId \in Targets(db.sales) :
        IF saleId \in DOMAIN db.sales /\ db.sales[saleId].createdBy = user
        THEN /\ req' = [req EXCEPT ![p] =
                    [IdleReq EXCEPT
                        !.pc = "cancel_move", !.op = "cancelSale",
                        !.user = user, !.id = saleId, !.idx = 1,
                        !.doc = db.sales[saleId],
                        !.snap = db, !.view = db]]
             /\ last' = NoAnswer
             /\ nreq' = nreq + 1
        ELSE RejectTx("cancelSale", user, saleId, "404", "ended")
    /\ UNCHANGED <<db, presale, calls, issued>>

\* variant: the ledger is called without the session, so each call is
\* applied to the committed record at once
cancelSale_recordMovement_NoSession(p) ==
    /\ At(p, "cancel_move")
    /\ LET item == req[p].doc.items[req[p].idx]
           r == recordMovement(db.stock, item.product, "return",
                               item.quantity, req[p].id, "Sale")
       IN /\ ~Locked(p, <<"stock", item.product>>)
          /\ db' = [db EXCEPT !.stock = r.stock]
          /\ req' = [req EXCEPT
                    ![p].idx = @ + 1,
                    ![p].pc = IF req[p].idx = Len(req[p].doc.items)
                              THEN "cancel_delete" ELSE @]
          /\ last' = NoAnswer
    /\ UNCHANGED <<nreq, presale, calls, issued>>

\* variant: the sale is deleted without its quantities being returned
cancelSale_recordMovement_Skipped(p) ==
    /\ At(p, "cancel_move")
    /\ req' = [req EXCEPT ![p].pc = "cancel_delete"]
    /\ last' = NoAnswer
    /\ UNCHANGED <<db, nreq, presale, calls, issued>>

\* lines 243-254
cancelSale_recordMovement(p) ==
    /\ At(p, "cancel_move")
    /\ LedgerStep(p, "return", "Sale", "cancel_delete")
    /\ UNCHANGED <<nreq, presale, calls, issued>>

\* lines 257-260
cancelSale_delete(p) ==
    /\ At(p, "cancel_delete")
    /\ IF WriteConflict(p, <<"sale", req[p].id>>)
       THEN Fail(p, req[p].view, req[p].wset, "err:WriteConflict")
       ELSE /\ db' = db
            /\ req' = [req EXCEPT
                    ![p].pc = "cancel_commit",
                    ![p].view.sales = Remove(@, req[p].id),
                    ![p].wset = @ \cup {<<"sale", req[p].id>>}]
            /\ last' = NoAnswer
    /\ UNCHANGED <<nreq, presale, calls, issued>>

\* lines 262-268
cancelSale_commit(p) ==
    /\ At(p, "cancel_commit")
    /\ db' = CommitTransaction(db, req[p].view, req[p].wset)
    /\ AnswerTx(p, "cancelSale", req[p].id, "200", "committed")
    /\ presale' = Remove(presale, req[p].id)
    /\ UNCHANGED <<nreq, calls, issued>>

\* ---- purchases (controllers/purchaseController.js) ----------------------
\* The supplier directory is maintained outside these workflows.
SupplierDocs ==
    (1 :> [createdBy |-> "u1", isActive |-> TRUE])
    @@ (2 :> [createdBy |-> "u2", isActive |-> TRUE])
    @@ (3 :> [createdBy |-> "u1", isActive |-> FALSE])

GoodPurchaseLists(clientTotal) ==
    {[i \in 1..Len(l) |->
        [product |-> l[i], quantity |-> MaxQty, unitCost |-> UnitCost,
         totalCost |-> clientTotal]] : l \in ProductLists}

PlainPurchaseItem ==
    [product |-> 1, quantity |-> MaxQty, unitCost |-> UnitCost, totalCost |-> 0]

BadPurchaseItems ==
    {[PlainPurchaseItem EXCEPT !.product = 0],
     [PlainPurchaseItem EXCEPT !.quantity = 0],
     [PlainPurchaseItem EXCEPT !.unitCost = 0],
     [PlainPurchaseItem EXCEPT !.quantity = 0 - 1],
     [PlainPurchaseItem EXCEPT !.unitCost = 0 - 1]}

\* purchase numbers a client may send: none (0), one already used, a new one
PurchaseNumbers ==
    {0, nreq + 1}
    \cup {db.purchases[i].purchaseNumber : i \in DOMAIN db.purchases}
    \cup {req[q].doc.purchaseNumber : q \in {r \in Procs : req[r].pc = "purchase_save"}}

\* purchaseStatus as sent in a request body ("" is a body without the field)
BodyStatuses == {"received", "cancelled"}

PurchaseBody(supplier, items, number, status, paymentMethod) ==
    [supplier |-> supplier, items |-> items, purchaseNumber |-> number,
     purchaseStatus |-> status, paymentMethod |-> paymentMethod]

PurchaseBodies ==
    {PurchaseBody(sup, l, nreq + 1, "", "cash") :
        sup \in {1, 2}, l \in GoodPurchaseLists(0)}
    \cup {PurchaseBody(1, <<PlainPurchaseItem>>, nreq + 1, st, "cash") :
            st \in BodyStatuses}
    \cup {PurchaseBody(sup, <<PlainPurchaseItem>>, nreq + 1, "", "cash") : sup \in {0, 3}}
    \cup {PurchaseBody(1, <<PlainPurchaseItem>>, n, "", "cash") : n \in PurchaseNumbers}
    \cup {PurchaseBody(1, <<PlainPurchaseItem>>, nreq + 1, "", "")}
    \cup {PurchaseBody(1, <<>>, nreq + 1, "", "cash")}
    \cup {PurchaseBody(1, <<b>>, nreq + 1, "", "cash") : b \in BadPurchaseItems}
    \cup {PurchaseBody(1, <<PlainPurchaseItem, b>>, nreq + 1, "", "cash") :
                b \in BadPurchaseItems}

ProductUsable(d, productId, user) ==
    /\ productId \in DOMAIN d.products
    /\ d.products[productId].createdBy = user
    /\ d.products[productId].isActive

\* createPurchase lines 40-75
RECURSIVE CheckPurchaseItems(_, _, _, _)
CheckPurchaseItems(items, user, d, i) ==
    IF i > Len(items) THEN "ok"
    ELSE
      LET item == items[i] IN
      IF item.product = 0 \/ item.quantity = 0 \/ item.unitCost = 0
      THEN "400:ItemFields"
      ELSE IF item.quantity <= 0 THEN "400:InvalidQuantity"
      ELSE IF item.unitCost < 0 THEN "400:InvalidUnitCost"
      ELSE IF ~ProductUsable(d, item.product, user) THEN "400:InvalidProduct"
      ELSE CheckPurchaseItems(items, user, d, i + 1)

NumberTaken(purchases, number) ==
    \E i \in DOMAIN purchases : purchases[i].purchaseNumber = number

\* createPurchase lines 19-84
ValidatePurchase(body, user, d) ==
    IF body.supplier = 0 THEN "400:SupplierRequired"
    ELSE IF \/ body.supplier \notin DOMAIN SupplierDocs
            \/ SupplierDocs[body.supplier].createdBy # user
            \/ ~SupplierDocs[body.supplier].isActive
    THEN "400:InvalidSupplier"
    ELSE IF Len(body.items) = 0 THEN "400:NoItems"
    ELSE IF CheckPurchaseItems(body.items, user, d, 1) # "ok"
    THEN CheckPurchaseItems(body.items, user, d, 1)
    ELSE IF body.purchaseNumber # 0 /\ NumberTaken(d.purchases, body.purchaseNumber)
    THEN "409:PurchaseNumber"
    ELSE "ok"

\* line 74 and line 281
WithTotalCost(items) ==
    [i \in 1..Len(items) |->
        [items[i] EXCEPT !.totalCost = items[i].quantity * items[i].unitCost]]

\* new Purchase({...req.body, createdBy}): every schema field of the body is
\* taken over; purchaseStatus defaults to "ordered" only when the body has none
PurchaseDocument(body, user) ==
    [purchaseNumber |-> body.purchaseNumber,
     supplier |-> body.supplier,
     items |-> WithTotalCost(body.items),
     purchaseStatus |-> IF body.purchaseStatus = "" THEN "ordered"
                        ELSE body.purchaseStatus,
     paymentMethod |-> body.paymentMethod,
     createdBy |-> user]

\* purchaseSchema validators
PurchaseValid(doc) ==
    /\ doc.purchaseNumber # 0
    /\ doc.paymentMethod \in PaymentMethodEnum
    /\ doc.purchaseStatus \in PurchaseStatusEnum
    /\ \A i \in 1..Len(doc.items) :
            doc.items[i].quantity >= 1 /\ doc.items[i].unitCost >= 0

\* lines 10-86: the reads are outside any transaction; the product and
\* supplier documents they read do not change once trading has started
createPurchase_validate(p) ==
    /\ FreeSlot(p)
    /\ Admit
    /\ \E user \in Users, body \in PurchaseBodies :
        LET outcome == ValidatePurchase(body, user, db) IN
        IF outcome # "ok"
        THEN Reject("createPurchase", user, 0, outcome)
        ELSE /\ req' = [req EXCEPT ![p] =
                    [IdleReq EXCEPT
                        !.pc = "purchase_save", !.op = "createPurchase",
                        !.user = user, !.id = nreq + 1,
                        !.doc = PurchaseDocument(body, user)]]
             /\ last' = NoAnswer
             /\ nreq' = nreq + 1
    /\ UNCHANGED <<db, presale, calls, issued>>

\* lines 87-99
createPurchase_save(p) ==
    /\ At(p, "purchase_save")
    /\ IF ~PurchaseValid(req[p].doc)
       THEN Answer(p, "createPurchase", 0, "err:ValidationError") /\ db' = db
       ELSE IF NumberTaken(db.purchases, req[p].doc.purchaseNumber)
       THEN Answer(p, "createPurchase", 0, "err:DuplicateKey") /\ db' = db
       ELSE /\ db' = [db EXCEPT !.purchases = @ @@ (req[p].id :> req[p].doc)]
            /\ Answer(p, "createPurchase", req[p].id, "201")
    /\ UNCHANGED <<nreq, presale, calls, issued>>

PurchaseOf(d, purchaseId, user) ==
    /\ purchaseId \in DOMAIN d.purchases
    /\ d.purchases[purchaseId].createdBy = user

\* request bodies of updatePurchase: a status, a new item list, or a
\* createdBy naming another user ("" is a body without the field)
UpdateBodies ==
    {[purchaseStatus |-> st, hasItems |-> FALSE, items |-> <<>>, createdBy |-> ""] :
        st \in {"received", "cancelled"}}
    \cup {[purchaseStatus |-> "", hasItems |-> TRUE, items |-> l, createdBy |-> ""] :
        l \in {<<>>} \cup {<<i>> : i \in {PlainPurchaseItem} \cup BadPurchaseItems}}
    \cup {[purchaseStatus |-> "", hasItems |-> FALSE, items |-> <<>>, createdBy |-> u] :
        u \in Users \ Owners}

\* updatePurchase lines 254-288
RECURSIVE CheckUpdateItems(_, _, _, _)
CheckUpdateItems(items, user, d, i) ==
    IF i > Len(items) THEN "ok"
    ELSE
      LET item == items[i] IN
      IF item.product = 0 \/ item.quantity = 0 \/ item.unitCost = 0
      THEN "400:ItemFields"
      ELSE IF ~ProductUsable(d, item.product, user) THEN "400:InvalidProduct"
      ELSE CheckUpdateItems(items, user, d, i + 1)

\* variant: the check of the current status is missing
UpdateOutcome_AnyStatus(d, purchaseId, user, updateData) ==
    IF ~PurchaseOf(d, purchaseId, user) THEN "404"
    ELSE IF updateData.hasItems /\ Len(updateData.items) = 0
    THEN "400:NoItems"
    ELSE CheckUpdateItems(updateData.items, user, d, 1)

\* lines 209-288
UpdateOutcome(d, purchaseId, user, updateData) ==
    IF ~PurchaseOf(d, purchaseId, user) THEN "404"
    ELSE IF d.purchases[purchaseId].purchaseStatus \in {"received", "cancelled"}
    THEN "400:AlreadyFinal"
    ELSE IF updateData.hasItems /\ Len(updateData.items) = 0
    THEN "400:NoItems"
    ELSE CheckUpdateItems(updateData.items, user, d, 1)

\* lines 203-288
updatePurchase_find(p) ==
    /\ FreeSlot(p)
    /\ \E user \in Users, purchaseId \in Targets(db.purchases), updateData \in UpdateBodies :
        LET outcome == UpdateOutcome(db, purchaseId, user, updateData)
        IN IF outcome # "ok"
           THEN /\ Admit \/ PurchaseOf(db, purchaseId, user)
                /\ Reject("updatePurchase", user, purchaseId, outcome)
           ELSE /\ req' = [req EXCEPT ![p] =
                    [IdleReq EXCEPT
                        !.pc = "update_write", !.op = "updatePurchase",
                        !.user = user, !.id = purchaseId,
                        !.body = [updateData EXCEPT
                                    !.items = WithTotalCost(updateData.items)]]]
                /\ last' = NoAnswer
                /\ Admit /\ nreq' = nreq + 1
    /\ UNCHANGED <<db, presale, calls, issued>>

\* Purchase.findByIdAndUpdate(purchaseId, updateData, {runValidators: true}):
\* updateData is req.body, every schema path of which is set
ApplyUpdate(doc, updateData) ==
    [doc EXCEPT
        !.purchaseStatus = IF updateData.purchaseStatus = "" THEN @
                           ELSE updateData.purchaseStatus,
        !.createdBy = IF updateData.createdBy = "" THEN @
                      ELSE updateData.createdBy,
        !.items = IF updateData.hasItems THEN updateData.items ELSE @]

\* lines 290-306
updatePurchase_write(p) ==
    /\ At(p, "update_write")
    /\ ~Locked(p, <<"purchase", req[p].id>>)
    /\ LET updated == ApplyUpdate(db.purchases[req[p].id], req[p].body) IN
       IF ~PurchaseValid(updated)
       THEN Answer(p, "updatePurchase", 0, "err:ValidationError") /\ db' = db
       ELSE /\ db' = [db EXCEPT !.purchases[req[p].id] = updated]
            /\ Answer(p, "updatePurchase", req[p].id, "200")
    /\ UNCHANGED <<nreq, presale, calls, issued>>

\* lines 318-332
CancelOutcome(d, purchaseId, user) ==
    IF ~PurchaseOf(d, purchaseId, user) THEN "404"
    ELSE IF d.purchases[purchaseId].purchaseStatus = "cancelled"
    THEN "400:AlreadyCancelled"
    ELSE IF d.purchases[purchaseId].purchaseStatus = "received"
    THEN "400:CannotCancelReceived"
    ELSE "ok"

\* lines 314-332
cancelPurchase_find(p) ==
    /\ FreeSlot(p)
    /\ \E user \in Users, purchaseId \in Targets(db.purchases) :
        LET outcome == CancelOutcome(db, purchaseId, user)
        IN IF outcome # "ok"
           THEN /\ Admit \/ PurchaseOf(db, purchaseId, user)
                /\ Reject("cancelPurchase", user, purchaseId, outcome)
           ELSE /\ req' = [req EXCEPT ![p] =
                    [IdleReq EXCEPT
                        !.pc = "pcancel_save", !.op = "cancelPurchase",
                        !.user = user, !.id = purchaseId]]
                /\ last' = NoAnswer
                /\ Admit /\ nreq' = nreq + 1
    /\ UNCHANGED <<db, presale, calls, issued>>

\* variant: the save writes the document back without its items
cancelPurchase_save_DropsItems(p) ==
    /\ At(p, "pcancel_save")
    /\ ~Locked(p, <<"purchase", req[p].id>>)
    /\ db' = [db EXCEPT !.purchases[req[p].id].purchaseStatus = "cancelled",
                        !.purchases[req[p].id].items = <<>>]
    /\ Answer(p, "cancelPurchase", req[p].id, "200")
    /\ UNCHANGED <<nreq, presale, calls, issued>>

\* lines 334-337: purchase.save() sends the modified path only
cancelPurchase_save(p) ==
    /\ At(p, "pcancel_save")
    /\ ~Locked(p, <<"purchase", req[p].id>>)
    /\ db' = [db EXCEPT !.purchases[req[p].id].purchaseStatus = "cancelled"]
    /\ Answer(p, "cancelPurchase", req[p].id, "200")
    /\ UNCHANGED <<nreq, presale, calls, issued>>

\* variant: the check of the current status is missing
ReceiveOutcome_AnyStatus(d, purchaseId, user) ==
    IF ~PurchaseOf(d, purchaseId, user) THEN "404" ELSE "ok"

\* lines 353-372
ReceiveOutcome(d, purchaseId, user) ==
    IF ~PurchaseOf(d, purchaseId, user) THEN "404"
    ELSE IF d.purchases[purchaseId].purchaseStatus # "ordered"
    THEN "400:Already:" \o d.purchases[purchaseId].purchaseStatus
    ELSE "ok"

\* lines 345-372
receivePurchase_find(p) ==
    /\ FreeSlot(p)
    /\ \E user \in Users, purchaseId \in Targets(db.purchases) :
        LET outcome == ReceiveOutcome(db, purchaseId, user)
        IN IF outcome # "ok"
           THEN /\ Admit \/ PurchaseOf(db, purchaseId, user)
                /\ RejectTx("receivePurchase", user, purchaseId, outcome, "ended")
           ELSE /\ req' = [req EXCEPT ![p] =
                    [IdleReq EXCEPT
                        !.pc = "receive_move", !.op = "receivePurchase",
                        !.user = user, !.id = purchaseId, !.idx = 1,
                        !.doc = db.purchases[purchaseId],
                        !.snap = db, !.view = db]]
                /\ last' = NoAnswer
                /\ Admit /\ nreq' = nreq + 1
    /\ UNCHANGED <<db, presale, calls, issued>>

\* variant: the ledger is called without the session, so each call is
\* applied to the committed record at once
receivePurchase_recordMovement_NoSession(p) ==
    /\ At(p, "receive_move")
    /\ LET item == req[p].doc.items[req[p].idx]
           r == recordMovement(db.stock, item.product, "purchase",
                               item.quantity, req[p].id, "Purchase")
       IN /\ ~Locked(p, <<"stock", item.product>>)
          /\ db' = [db EXCEPT !.stock = r.stock]
          /\ req' = [req EXCEPT
                    ![p].idx = @ + 1,
                    ![p].pc = IF req[p].idx = Len(req[p].doc.items)
                              THEN "receive_save" ELSE @]
          /\ last' = NoAnswer
    /\ UNCHANGED <<nreq, presale, calls, issued>>

\* lines 374-385
receivePurchase_recordMovement(p) ==
    /\ At(p, "receive_move")
    /\ LedgerStep(p, "purchase", "Purchase", "receive_save")
    /\ UNCHANGED <<nreq, presale, calls, issued>>

\* variant: the status is not set before the save
receivePurchase_save_NoStatus(p) ==
    /\ At(p, "receive_save")
    /\ IF WriteConflict(p, <<"purchase", req[p].id>>)
       THEN Fail(p, req[p].view, req[p].wset, "err:WriteConflict")
       ELSE /\ db' = db
            /\ req' = [req EXCEPT
                    ![p].pc = "receive_commit",
                    ![p].wset = @ \cup {<<"purchase", req[p].id>>}]
            /\ last' = NoAnswer
    /\ UNCHANGED <<nreq, presale, calls, issued>>

\* lines 387-388
receivePurchase_save(p) ==
    /\ At(p, "receive_save")
    /\ IF WriteConflict(p, <<"purchase", req[p].id>>)
       THEN Fail(p, req[p].view, req[p].wset, "err:WriteConflict")
       ELSE /\ db' = db
            /\ req' = [req EXCEPT
                    ![p].pc = "receive_commit",
                    ![p].view.purchases[req[p].id].purchaseStatus = "received",
                    ![p].wset = @ \cup {<<"purchase", req[p].id>>}]
            /\ last' = NoAnswer
    /\ UNCHANGED <<nreq, presale, calls, issued>>

\* lines 390-402
receivePurchase_commit(p) ==
    /\ At(p, "receive_commit")
    /\ db' = CommitTransaction(db, req[p].view, req[p].wset)
    /\ AnswerTx(p, "receivePurchase", req[p].id, "200", "committed")
    /\ UNCHANGED <<nreq, presale, calls, issued>>

\* ---- the system ----------------------------------------------------------
Init ==
    /\ db = EmptyDb
    /\ req = [p \in Procs |-> IdleReq]
    /\ nreq = 0
    /\ last = NoAnswer
    /\ presale = <<>>
    /\ calls = NoCalls
    /\ issued = {}

\* the steps of the request in slot p
Handlers(p) ==
    \/ createSale_validate(p)
    \/ createSale_presave(p)
    \/ createSale_insert(p)
    \/ createSale_recordMovement(p)
    \/ createSale_commit(p)
    \/ cancelSale_find(p)
    \/ cancelSale_recordMovement(p)
    \/ cancelSale_delete(p)
    \/ cancelSale_commit(p)
    \/ createPurchase_validate(p)
    \/ createPurchase_save(p)
    \/ updatePurchase_find(p)
    \/ updatePurchase_write(p)
    \/ cancelPurchase_find(p)
    \/ cancelPurchase_save(p)
    \/ receivePurchase_find(p)
    \/ receivePurchase_recordMovement(p)
    \/ receivePurchase_save(p)
    \/ receivePurchase_commit(p)

\* requests of any kind, interleaved at their storage calls
Next ==
    \/ createProduct
    \/ \E p \in Procs : Handlers(p)

Spec == Init /\ [][Next]_vars

\* ---- calls one after the other -------------------------------------------
\* with a single slot a request starts only after the one before was answered
NextSeq ==
    \/ createProduct
    \/ Handlers(1)

SpecSeq == Init /\ [][NextSeq]_vars

\* ---- two sales racing for the same stock ---------------------------------
RaceSale == [stock |-> 100, quantity |-> 60]

RaceBodies ==
    {SaleBody(<<[product |-> 1, quantity |-> RaceSale.quantity,
                 unitPrice |-> UnitPrice, totalPrice |-> 0]>>, pm, 0) :
        pm \in PaymentMethodEnum}

InitRace ==
    /\ db = [EmptyDb EXCEPT
                !.products = (1 :> [createdBy |-> "u1", isActive |-> TRUE]),
                !.stock = (1 :> NewStock(1, RaceSale.stock))]
    /\ req = [p \in Procs |-> IdleReq]
    /\ nreq = 0
    /\ last = NoAnswer
    /\ presale = <<>>
    /\ calls = NoCalls
    /\ issued = {}

raceSale(p) ==
    /\ FreeSlot(p)
    /\ Admit
    /\ \E body \in RaceBodies : createSale_request(p, "u1", body)
    /\ UNCHANGED <<db, presale, calls, issued>>

NextRace ==
    \E p \in Procs :
        \/ raceSale(p)
        \/ createSale_presave(p)
        \/ createSale_insert(p)
        \/ createSale_recordMovement(p)
        \/ createSale_commit(p)

SpecRace == InitRace /\ [][NextRace]_vars

\* ---- stock reads (controllers/stockController.js) -------------------------
\* a read answers at once and writes nothing; data names the products whose
\* stock record is in the response
ReadAnswer(op, user, id, result, data) ==
    /\ Live
    /\ last' = [NoAnswer EXCEPT !.op = op, !.by = user, !.id = id,
                                !.result = result, !.data = data,
                                !.early = TRUE]
    /\ UNCHANGED <<db, req, nreq, presale, calls, issued>>

\* lowStockThreshold of the query string; -1 is a request without it
Thresholds == {0 - 1, 0}

\* lines 7-87: the query is built from search and lowStockThreshold only
getAllStock ==
    \E user \in Users, threshold \in Thresholds :
        ReadAnswer("getAllStock", user, 0, "200",
                   {productId \in DOMAIN db.stock :
                        threshold >= 0 =>
                            db.stock[productId].currentStock <= threshold})

\* lines 90-105: Stock.findOne({ product: productId })
getStockByProductId ==
    \E user \in Users, productId \in ProductIds :
        IF productId \in DOMAIN db.stock
        THEN ReadAnswer("getStockByProductId", user, productId, "200", {productId})
        ELSE ReadAnswer("getStockByProductId", user, productId, "404", {})

\* lines 108-149: Stock.findOne({ product: productId }), then its history
getStockMovement ==
    \E user \in Users, productId \in ProductIds :
        IF productId \in DOMAIN db.stock
        THEN ReadAnswer("getStockMovement", user, productId, "200", {productId})
        ELSE ReadAnswer("getStockMovement", user, productId, "404", {})

\* the reads among requests made one after the other
NextRead ==
    \/ NextSeq
    \/ getAllStock
    \/ getStockByProductId
    \/ getStockMovement

SpecRead == Init /\ [][NextRead]_vars

\* ---- Stock.recordMovement called without a session ------------------------
\* currentStock of the product's record before the calls
LedgerStocks == {0, 1, MaxQty + 1}
LedgerQuantities == {0, 1, MaxQty}
\* "transfer" is outside the movementType enum
LedgerTypes == MovementTypes \cup {"transfer"}
\* product 1 has a stock record, the last product id has none
LedgerProducts == {1, MaxProducts}

InitLedger ==
    \E stock \in LedgerStocks :
        /\ db = [EmptyDb EXCEPT
                    !.products = (1 :> [createdBy |-> "u1", isActive |-> TRUE]),
                    !.stock = (1 :> NewStock(1, stock))]
        /\ req = [p \in Procs |-> IdleReq]
        /\ nreq = 0
        /\ last = NoAnswer
        /\ presale = <<>>
        /\ calls = [start |-> (1 :> NewStock(1, stock)), applied |-> <<>>]
        /\ issued = {}

\* Stock.recordMovement(productId, type, quantity, ...) with no session: the
\* call is on its way to the store; snap is the collection at that moment
recordMovement_call(p) ==
    /\ FreeSlot(p)
    /\ Admit
    /\ \E productId \in LedgerProducts, type \in LedgerTypes,
          quantity \in LedgerQuantities :
            req' = [req EXCEPT ![p] =
                [IdleReq EXCEPT
                    !.pc = "ledger_update", !.op = "recordMovement",
                    !.user = "u1", !.id = nreq + 1, !.snap = db,
                    !.body = [items |-> <<>>, product |-> productId,
                              movementType |-> type, quantity |-> quantity]]]
    /\ nreq' = nreq + 1
    /\ last' = NoAnswer
    /\ UNCHANGED <<db, presale, calls, issued>>

\* the answer of the call and the entry of the call in the history variable
Returned(p, error) ==
    /\ Answer(p, "recordMovement", req[p].body.product,
              IF error = "none" THEN "ok" ELSE "err:" \o error)
    /\ calls' = [calls EXCEPT !.applied =
                    Append(@, [id |-> req[p].id,
                               product |-> req[p].body.product,
                               movementType |-> req[p].body.movementType,
                               quantity |-> req[p].body.quantity,
                               error |-> error])]

\* variant: the record is computed from what was read when the call was made
\* and written back
recordMovement_update_WriteBack(p) ==
    /\ At(p, "ledger_update")
    /\ LET b == req[p].body
           r == recordMovement(req[p].snap.stock, b.product, b.movementType,
                               b.quantity, req[p].id, "Adjustment")
       IN /\ db' = [db EXCEPT !.stock =
                        IF b.product \in DOMAIN r.stock
                        THEN (b.product :> r.stock[b.product]) @@ @ ELSE @]
          /\ Returned(p, r.error)
    /\ UNCHANGED <<nreq, presale, issued>>

\* models/Stock.js lines 81-145 outside a transaction: the store applies the
\* findOneAndUpdate in one step, then the function looks at the document it
\* got back; what it throws undoes nothing
recordMovement_update(p) ==
    /\ At(p, "ledger_update")
    /\ LET b == req[p].body
           r == recordMovement(db.stock, b.product, b.movementType,
                               b.quantity, req[p].id, "Adjustment")
       IN /\ db' = [db EXCEPT !.stock = r.stock]
          /\ Returned(p, r.error)
    /\ UNCHANGED <<nreq, presale, issued>>

NextLedger ==
    \E p \in Procs :
        \/ recordMovement_call(p)
        \/ recordMovement_update(p)

SpecLedger == InitLedger /\ [][NextLedger]_vars

\* ---- invoice numbers over a collection that already has sales -------------
\* the characters after "INV-" of the numbers of the sales that exist: one
\* sent by a client with fewer digits than the hook writes, numbers the hook
\* wrote, the last number of six digits and the first of seven
InvoiceSuffixes ==
    {<<5>>, <<0, 0, 0, 0, 0, 1>>, <<0, 0, 0, 0, 1, 0>>,
     <<9, 9, 9, 9, 9, 9>>, <<1, 0, 0, 0, 0, 0, 0>>}

\* the numbers of the existing sales, in the order the sales were made
ExistingNumbers ==
    {<<>>} \cup {<<a>> : a \in InvoiceSuffixes}
    \cup UNION {{<<a, b>> : b \in InvoiceSuffixes \ {a}} : a \in InvoiceSuffixes}

\* invoiceNumber of a request body; <<>> is a body without the field
ClientNumbers == {<<>>, <<5>>, <<9, 9, 9, 9, 9, 9>>}

InvoiceStock == 10

InvoiceItem == [product |-> 1, quantity |-> 1, unitPrice |-> UnitPrice, totalPrice |-> UnitPrice]

\* a number in the form the hook writes it
Canonical(number) == number = padStart(Digits(parseInt(number)))

\* product 1 of u1 with InvoiceStock units, from which each existing sale
\* took one; the existing sales have ids above those of the requests
InitInvoice ==
    \E numbers \in ExistingNumbers :
        LET id(i) == MaxRequests + i
            StockAfter(k) ==
                [currentStock |-> InvoiceStock - k,
                 movementHistory |->
                    <<MovementEntry("adjustment", InvoiceStock, 1, "Product")>>
                    \o [i \in 1..k |-> MovementEntry("sale", 1, id(i), "Sale")]]
        IN /\ db = [EmptyDb EXCEPT
                    !.products = (1 :> [createdBy |-> "u1", isActive |-> TRUE]),
                    !.stock = (1 :> StockAfter(Len(numbers))),
                    !.sales = [s \in {id(i) : i \in 1..Len(numbers)} |->
                                [invoiceNumber |-> numbers[s - MaxRequests],
                                 items |-> <<InvoiceItem>>,
                                 totalAmount |-> UnitPrice,
                                 paymentMethod |-> "cash",
                                 createdBy |-> "u1"]]]
           /\ req = [p \in Procs |-> IdleReq]
           /\ nreq = 0
           /\ last = NoAnswer
           /\ presale = [s \in {id(i) : i \in 1..Len(numbers)} |->
                            (1 :> StockAfter(s - MaxRequests - 1))]
           /\ calls = NoCalls
           /\ issued = {numbers[i] : i \in {j \in 1..Len(numbers) : Canonical(numbers[j])}}

\* createSale of one unit of product 1, with or without an invoiceNumber
invoiceSale(p) ==
    /\ FreeSlot(p)
    /\ Admit
    /\ \E number \in ClientNumbers :
        createSale_request(p, "u1",
            [SaleBody(<<InvoiceItem>>, "cash", 0) EXCEPT !.invoiceNumber = number])
    /\ UNCHANGED <<db, presale, calls, issued>>

NextInvoice ==
    \E p \in Procs :
        \/ invoiceSale(p)
        \/ createSale_presave(p)
        \/ createSale_insert(p)
        \/ createSale_recordMovement(p)
        \/ createSale_commit(p)
        \/ cancelSale_find(p)
        \/ cancelSale_recordMovement(p)
        \/ cancelSale_delete(p)
        \/ cancelSale_commit(p)

SpecInvoice == InitInvoice /\ [][NextInvoice]_vars

\* ---- the error middleware (app.js) ---------------------------------------
\* what a handler hands to next(err)
PropagatedErrors ==
    {"err:ValidationError", "err:DuplicateKey", "err:WriteConflict",
     "err:InsufficientStock", "err:InvalidQuantity", "err:InvalidMovementType",
     "err:Storage"}

\* app.use((err, req, res, next) => ...): a duplicate key is answered 409, a
\* mongoose ValidationError 400, anything else errorResponse(res), which is
\* 500 "Internal Server Error"
GlobalErrorHandler(error) ==
    IF error = "err:DuplicateKey" THEN "409:DuplicateKey"
    ELSE IF error = "err:ValidationError" THEN "400:ValidationError"
    ELSE "500:InternalServerError"

\* the response the client gets for an answer
Response(answer) ==
    IF answer.result \in PropagatedErrors
    THEN GlobalErrorHandler(answer.result) ELSE answer.result

\* ---- storage errors -------------------------------------------------------
\* the handlers that run in a transaction
SessionOps == {"createSale", "cancelSale", "receivePurchase"}

\* the first read of a handler rejects: the catch block aborts, ends the
\* session and calls next(err)
findError ==
    /\ Live
    /\ \A p \in Procs : req[p].pc = "idle"
    /\ \E op \in SessionOps, user \in Users :
        RejectTx(op, user, 0, "err:Storage", "ended")
    /\ UNCHANGED <<db, presale, calls, issued>>

\* an awaited read or write inside the transaction rejects (the pre-save
\* hook's findOne, the insert, a recordMovement, the delete, the save): the
\* catch block aborts, ends the session and calls next(err)
storageError(p) ==
    /\ Live
    /\ req[p].pc \in TxPcs \ {"sale_commit", "cancel_commit", "receive_commit"}
    /\ Fail(p, req[p].view, req[p].wset, "err:Storage")
    /\ UNCHANGED <<nreq, presale, calls, issued>>

\* createSale lines 117-128 and receivePurchase lines 390-408 when the
\* populate after commitTransaction and endSession rejects: the catch block
\* runs on a transaction that is committed, so nothing is undone and the
\* request ends with the error
populateError(p) ==
    /\ Live
    /\ req[p].pc \in {"sale_commit", "receive_commit"}
    /\ db' = CommitTransaction(db, req[p].view, req[p].wset)
    /\ AnswerTx(p, req[p].op, req[p].id, "err:Storage", "committed")
    /\ presale' = IF req[p].op = "createSale"
                  THEN presale @@ (req[p].id :> db.stock) ELSE presale
    /\ issued' = IF req[p].op = "createSale" /\ req[p].body.invoiceNumber = <<>>
                 THEN issued \cup {req[p].doc.invoiceNumber} ELSE issued
    /\ UNCHANGED <<nreq, calls>>

\* requests made one after the other over a store whose calls can fail
NextFault ==
    \/ NextSeq
    \/ findError
    \/ storageError(1)
    \/ populateError(1)

SpecFault == Init /\ [][NextFault]_vars

TypeOK == nreq \in 0..MaxRequests

\* ---- properties ----------------------------------------------------------
\* the step of slot p from position pc to its answer
Finishes(p, pc) == req[p].pc = pc /\ req'[p].pc = "idle"

\* C1: in every committed state, under any interleaving of the requests,
\* every product's stock record has currentStock >= 0; a sale that
\* lists the same product in more than one item does not get below zero.
C1_StockNeverNegative ==
    \A productId \in DOMAIN db.stock : db.stock[productId].currentStock >= 0

\* a product was sold down to less than one more item, and the next sale of
\* it was turned away
C1_Witness ==
    /\ last.op = "createSale"
    /\ last.result = "400:InsufficientStock"
    /\ \E productId \in DOMAIN db.stock :
        /\ db.stock[productId].currentStock \in 0..(MaxQty - 1)
        /\ \E s \in DOMAIN db.sales :
                \E i \in 1..Len(db.sales[s].items) :
                    db.sales[s].items[i].product = productId

\* C2: two concurrent createSale requests of 60 units against a stock of
\* 100: exactly one commits, leaving stock 40 and one Sale document, and
\* every request that fails fails with InsufficientStock.
C2_RaceLoserInsufficientStock ==
    /\ Cardinality(DOMAIN db.sales) <= 1
    /\ db.stock[1].currentStock =
            IF DOMAIN db.sales = {} THEN RaceSale.stock
            ELSE RaceSale.stock - RaceSale.quantity
    /\ last.op = "createSale" =>
            last.result \in {"201", "400:InsufficientStock", "err:InsufficientStock"}

\* C3: a createSale that fails inside its transaction, at whatever item,
\* leaves every stock record and every collection as they were and no Sale
\* document of the request exists.
C3_FailedSaleLeavesNothing ==
    [][\A p \in Procs :
        (req[p].op = "createSale" /\ req'[p].pc = "idle" /\ last'.result # "201")
            => /\ db' = db
               /\ req[p].id \notin DOMAIN db'.sales]_vars

\* the ledger rejected the second item of a sale after the first item of the
\* same product was decremented; the stock is what createProduct set
C3_Witness ==
    /\ last.op = "createSale"
    /\ last.result = "err:InsufficientStock"
    /\ db.sales = <<>>
    /\ \E productId \in DOMAIN db.stock :
        /\ db.stock[productId].currentStock \in MaxQty..(2 * MaxQty - 1)
        /\ Len(db.stock[productId].movementHistory) = 1

RECURSIVE SignedSum(_, _)
SignedSum(history, i) ==
    IF i > Len(history) THEN 0
    ELSE (IF history[i].movementType = "sale"
          THEN 0 - history[i].quantity ELSE history[i].quantity)
         + SignedSum(history, i + 1)

\* C4: in every committed state each product's currentStock is the signed
\* sum of its movementHistory: the initial quantity, plus purchases,
\* adjustments and returns, minus sales.
C4_StockIsSumOfMovements ==
    \A productId \in DOMAIN db.stock :
        db.stock[productId].currentStock =
            SignedSum(db.stock[productId].movementHistory, 1)

\* a product with an initial quantity, a sale and the return of that sale
C4_Witness ==
    \E productId \in DOMAIN db.stock :
        LET history == db.stock[productId].movementHistory IN
        /\ Len(history) >= 3
        /\ history[1].movementType = "adjustment"
        /\ \E i \in 1..Len(history) : history[i].movementType = "sale"
        /\ history[Len(history)].movementType = "return"

\* the entries of history after the first n
Since(history, n) == SubSeq(history, n + 1, Len(history))

\* C5: a createSale followed by the cancelSale of that sale, with no other
\* operation on a product of the sale in between, returns the product's
\* currentStock to its value before the sale, and the Sale document is gone.
C5_CancelRestoresStock ==
    [][\A p \in Procs :
        Finishes(p, "cancel_commit") =>
            LET saleId == req[p].id IN
            /\ saleId \notin DOMAIN db'.sales
            /\ saleId \in DOMAIN presale
            /\ \A productId \in DOMAIN presale[saleId] :
                LET before == presale[saleId][productId]
                    after == db'.stock[productId]
                    since == Since(after.movementHistory,
                                   Len(before.movementHistory))
                IN (\A i \in 1..Len(since) :
                        /\ since[i].sourceDocument = saleId
                        /\ since[i].sourceModel = "Sale")
                   => after.currentStock = before.currentStock]_vars

\* a sale was cancelled: its product carries the sale entry and the return
\* entry, and the sale is not in the collection
C5_Witness ==
    /\ last.op = "cancelSale"
    /\ last.result = "200"
    /\ last.id \notin DOMAIN db.sales
    /\ \E productId \in DOMAIN db.stock :
        LET history == db.stock[productId].movementHistory IN
        \E i \in 1..Len(history) :
            /\ history[i].movementType = "return"
            /\ history[i].sourceDocument = last.id

RECURSIVE SoldQuantity(_, _, _)
SoldQuantity(items, productId, i) ==
    IF i > Len(items) THEN 0
    ELSE (IF items[i].product = productId THEN items[i].quantity ELSE 0)
         + SoldQuantity(items, productId, i + 1)

RECURSIVE SaleEntries(_, _, _, _)
SaleEntries(items, productId, saleId, i) ==
    IF i > Len(items) THEN <<>>
    ELSE (IF items[i].product = productId
          THEN <<[movementType |-> "sale", quantity |-> items[i].quantity,
                  sourceDocument |-> saleId, sourceModel |-> "Sale"]>>
          ELSE <<>>)
         \o SaleEntries(items, productId, saleId, i + 1)

\* C6: a createSale that succeeds persists exactly one Sale document; each
\* item takes its quantity off the product's currentStock and appends one
\* sale entry with that quantity and the Sale as source; the stock record of
\* a product that is not in the sale does not change.
C6_SaleEffect ==
    [][\A p \in Procs :
        Finishes(p, "sale_commit") =>
            LET saleId == req[p].id
                items == req[p].doc.items
            IN /\ saleId \notin DOMAIN db.sales
               /\ DOMAIN db'.sales = DOMAIN db.sales \cup {saleId}
               /\ \A s \in DOMAIN db.sales : db'.sales[s] = db.sales[s]
               /\ db'.sales[saleId] = req[p].doc
               /\ DOMAIN db'.stock = DOMAIN db.stock
               /\ \A productId \in DOMAIN db.stock :
                    /\ db'.stock[productId].currentStock =
                            db.stock[productId].currentStock
                            - SoldQuantity(items, productId, 1)
                    /\ db'.stock[productId].movementHistory =
                            db.stock[productId].movementHistory
                            \o SaleEntries(items, productId, saleId, 1)]_vars

\* a sale of two items of different products was committed
C6_Witness ==
    /\ last.op = "createSale"
    /\ last.result = "201"
    /\ last.id \in DOMAIN db.sales
    /\ LET items == db.sales[last.id].items IN
        /\ Len(items) = 2
        /\ items[1].product # items[2].product
        /\ \A i \in 1..2 :
            \E j \in 1..Len(db.stock[items[i].product].movementHistory) :
                db.stock[items[i].product].movementHistory[j].sourceDocument = last.id

RECURSIVE SumOfProducts(_, _)
SumOfProducts(items, i) ==
    IF i > Len(items) THEN 0
    ELSE items[i].quantity * items[i].unitPrice + SumOfProducts(items, i + 1)

\* C7: every persisted Sale has totalAmount = sum of quantity x unitPrice
\* over its items and every item has totalPrice = quantity x unitPrice,
\* whatever totals the request carried.
C7_TotalsComputed ==
    \A s \in DOMAIN db.sales :
        LET sale == db.sales[s] IN
        /\ \A i \in 1..Len(sale.items) :
                sale.items[i].totalPrice =
                    sale.items[i].quantity * sale.items[i].unitPrice
        /\ sale.totalAmount = SumOfProducts(sale.items, 1)

\* a sale of several items is persisted while a request that carries a
\* totalAmount of its own is on its way to be saved
C7_Witness ==
    /\ \E s \in DOMAIN db.sales : Len(db.sales[s].items) = MaxItems
    /\ \E p \in Procs :
        /\ req[p].pc = "sale_presave"
        /\ req[p].body.totalAmount # SumOfProducts(req[p].body.items, 1)

\* a request createSale has no reason to turn away, as read on d
SaleAcceptable(body, user, d) ==
    /\ body.paymentMethod # ""
    /\ Len(body.items) > 0
    /\ \A i \in 1..Len(body.items) :
        LET item == body.items[i] IN
        /\ item.quantity > 0
        /\ item.unitPrice >= 0
        /\ item.product \in DOMAIN d.products
        /\ d.products[item.product].createdBy = user
        /\ d.products[item.product].isActive
        /\ item.product \in DOMAIN d.stock
        /\ item.quantity <= d.stock[item.product].currentStock

\* C8: a createSale with empty items, without paymentMethod, with an invalid
\* quantity or unitPrice, with a product that is missing, inactive or not
\* the caller's, or with an item quantity above the product's currentStock
\* goes no further than its checks: it is turned away, no Sale document
\* is created and no stock record changes.
C8_RejectedSaleWritesNothing ==
    [][/\ (last'.op = "createSale" /\ last'.early) => (db' = db /\ req' = req)
       /\ \A p \in Procs :
            (req[p].pc = "idle" /\ req'[p].pc = "sale_presave")
                => SaleAcceptable(req'[p].body, req'[p].user, db)]_vars

\* a sale of more than the stock was turned away with the stock as it was
C8_Witness ==
    /\ last.op = "createSale"
    /\ last.early
    /\ last.result = "400:InsufficientStock"
    /\ db.sales = <<>>
    /\ \E productId \in DOMAIN db.stock :
            db.stock[productId].currentStock < MaxQty

C10_CreatedPurchaseIsOrdered ==
    [][\A p \in Procs :
        Finishes(p, "purchase_save") =>
            /\ db'.stock = db.stock
            /\ \A id \in DOMAIN db'.purchases \ DOMAIN db.purchases :
                    db'.purchases[id].purchaseStatus = "ordered"]_vars

\* the slot p takes a step
Acts(p) == req'[p] # req[p]

RECURSIVE PurchaseEntries(_, _, _, _)
PurchaseEntries(items, productId, purchaseId, i) ==
    IF i > Len(items) THEN <<>>
    ELSE (IF items[i].product = productId
          THEN <<[movementType |-> "purchase", quantity |-> items[i].quantity,
                  sourceDocument |-> purchaseId, sourceModel |-> "Purchase"]>>
          ELSE <<>>)
         \o PurchaseEntries(items, productId, purchaseId, i + 1)

\* C11: the commit of a receivePurchase finds the purchase ordered and, in
\* one step, adds each item's quantity to its product's currentStock,
\* appends one purchase entry per item and sets purchaseStatus to received,
\* changing nothing else; every other step of a receivePurchase, a failing
\* one included, persists nothing.
C11_ReceiveCommitsAtomically ==
    [][\A p \in Procs :
        /\ Finishes(p, "receive_commit") =>
            LET purchaseId == req[p].id
                items == db.purchases[purchaseId].items
            IN /\ db.purchases[purchaseId].purchaseStatus = "ordered"
               /\ db.purchases[purchaseId].createdBy = req[p].user
               /\ db'.purchases =
                    [db.purchases EXCEPT ![purchaseId].purchaseStatus = "received"]
               /\ db'.sales = db.sales
               /\ DOMAIN db'.stock = DOMAIN db.stock
               /\ \A productId \in DOMAIN db.stock :
                    /\ db'.stock[productId].currentStock =
                            db.stock[productId].currentStock
                            + SoldQuantity(items, productId, 1)
                    /\ db'.stock[productId].movementHistory =
                            db.stock[productId].movementHistory
                            \o PurchaseEntries(items, productId, purchaseId, 1)
        /\ (req[p].op = "receivePurchase" /\ Acts(p)
                /\ ~Finishes(p, "receive_commit")) => db' = db]_vars

\* a purchase of several items was received: it is in status received and
\* each of its products carries a purchase entry of it
C11_Witness ==
    /\ last.op = "receivePurchase"
    /\ last.result = "200"
    /\ last.id \in DOMAIN db.purchases
    /\ LET purchase == db.purchases[last.id] IN
        /\ purchase.purchaseStatus = "received"
        /\ Len(purchase.items) = MaxItems
        /\ \A i \in 1..Len(purchase.items) :
            LET history == db.stock[purchase.items[i].product].movementHistory
            IN \E j \in 1..Len(history) :
                /\ history[j].movementType = "purchase"
                /\ history[j].sourceDocument = last.id
\* the answer InvalidStateTransition of op for a purchase in status
NotOrdered(op, status) ==
    IF op = "receivePurchase" THEN "400:Already:" \o status
    ELSE IF status = "received" THEN "400:CannotCancelReceived"
    ELSE "400:AlreadyCancelled"

\* C12: a receivePurchase or cancelPurchase on a purchase of the caller that
\* is received or cancelled is turned away with the answer for that status,
\* cancelPurchase answering a received purchase differently from a cancelled
\* one, and changes no purchase and no stock record; a request that is let
\* in found the purchase ordered.
C12_NotOrderedRejected ==
    [][/\ (/\ last'.early
           /\ last'.op \in {"receivePurchase", "cancelPurchase"}
           /\ PurchaseOf(db, last'.id, last'.by))
            => LET status == db.purchases[last'.id].purchaseStatus IN
               /\ status \in {"received", "cancelled"}
               /\ last'.result = NotOrdered(last'.op, status)
               /\ NotOrdered("cancelPurchase", "received")
                    # NotOrdered("cancelPurchase", "cancelled")
               /\ db' = db
               /\ req' = req
       /\ \A p \in Procs :
            (/\ req[p].pc = "idle"
             /\ req'[p].op \in {"receivePurchase", "cancelPurchase"})
                => /\ last'.result = "none"
                   /\ db.purchases[req'[p].id].purchaseStatus = "ordered"]_vars

\* a purchase was received, its quantities are in the ledger, and a second
\* receivePurchase of it was turned away
C12_Witness ==
    /\ last.op = "receivePurchase"
    /\ last.early
    /\ last.result = "400:Already:received"
    /\ last.id \in DOMAIN db.purchases
    /\ LET purchase == db.purchases[last.id] IN
        /\ purchase.purchaseStatus = "received"
        /\ \A i \in 1..Len(purchase.items) :
            LET history == db.stock[purchase.items[i].product].movementHistory
            IN \E j \in 1..Len(history) :
                /\ history[j].movementType = "purchase"
                /\ history[j].sourceDocument = last.id
\* the entries that purchase purchaseId has in a movement history
LedgerOf(history, purchaseId) ==
    LET OfPurchase(entry) ==
            entry.sourceModel = "Purchase" /\ entry.sourceDocument = purchaseId
    IN SelectSeq(history, OfPurchase)

\* C13: in every committed state a received purchase has one purchase entry
\* per item in the ledger, with the item's quantity, and an ordered or
\* cancelled purchase has none: only receivePurchase makes a purchase
\* received, and it is the only purchase operation that writes the ledger.
C13_ReceivedIffInLedger ==
    \A purchaseId \in DOMAIN db.purchases :
        \A productId \in DOMAIN db.stock :
            LedgerOf(db.stock[productId].movementHistory, purchaseId) =
                IF db.purchases[purchaseId].purchaseStatus = "received"
                THEN PurchaseEntries(db.purchases[purchaseId].items,
                                     productId, purchaseId, 1)
                ELSE <<>>
ValidCall(p) ==
    /\ req[p].body.movementType \in MovementTypes
    /\ req[p].body.quantity >= 1

\* C15: a recordMovement without a session, of type sale and of more than
\* the product's currentStock, fails with InsufficientStock and leaves the
\* stock record as it was before the call.
C15_FailedSaleMovementReverted ==
    [][\A p \in Procs :
        (/\ Finishes(p, "ledger_update")
         /\ req[p].body.movementType = "sale"
         /\ req[p].body.product \in DOMAIN db.stock
         /\ req[p].body.quantity > db.stock[req[p].body.product].currentStock)
            => /\ last'.result = "err:InsufficientStock"
               /\ db'.stock = db.stock]_vars

\* C16: a recordMovement for a product id that has no stock record fails
\* with StockRecordNotFound, whatever the movement type, and creates no
\* stock record.
C16_MissingRecordNotCreated ==
    [][\A p \in Procs :
        (/\ Finishes(p, "ledger_update")
         /\ ValidCall(p)
         /\ req[p].body.product \notin DOMAIN db.stock)
            => /\ last'.result = "err:StockRecordNotFound"
               /\ DOMAIN db'.stock = DOMAIN db.stock]_vars

\* the calls that the store applied on the record of productId
CallsOn(productId) ==
    LET OnProduct(call) == call.product = productId
    IN SelectSeq(calls.applied, OnProduct)

\* C17: once concurrent recordMovement calls on a product have all returned
\* without error, in whatever order the store applied them, the product's
\* currentStock is its starting value plus the signed quantities of the
\* calls, and its movementHistory has one more entry per call.
C17_NoLostUpdate ==
    (/\ \A p \in Procs : req[p].pc = "idle"
     /\ \A i \in 1..Len(calls.applied) : calls.applied[i].error = "none")
        => \A productId \in DOMAIN calls.start :
            LET start == calls.start[productId]
                on == CallsOn(productId)
            IN /\ db.stock[productId].currentStock =
                    start.currentStock + SignedSum(on, 1)
               /\ Len(db.stock[productId].movementHistory) =
                    Len(start.movementHistory) + Len(on)

\* two calls on the same record, a sale and a purchase, were in flight
\* together and the store applied the later one first; both returned
C17_Witness ==
    /\ \A p \in Procs : req[p].pc = "idle"
    /\ Len(calls.applied) = 2
    /\ calls.applied[1].id > calls.applied[2].id
    /\ \A i \in 1..2 :
        /\ calls.applied[i].error = "none"
        /\ calls.applied[i].product \in DOMAIN calls.start
    /\ \E i \in 1..2 : calls.applied[i].movementType = "sale"
    /\ \E i \in 1..2 : calls.applied[i].movementType = "purchase"
IsPrefix(a, b) == Len(a) <= Len(b) /\ SubSeq(b, 1, Len(a)) = a

\* C18: on every step each stock record stays and its movementHistory is
\* unchanged or extended at its end, no entry of it being modified, moved or
\* removed; every entry has a quantity of at least 1 and one of the four
\* movement types, which alone carries the sign.
C18_HistoryAppendOnly ==
    [][/\ \A productId \in DOMAIN db.stock :
            /\ productId \in DOMAIN db'.stock
            /\ IsPrefix(db.stock[productId].movementHistory,
                        db'.stock[productId].movementHistory)
       /\ \A productId \in DOMAIN db'.stock :
            LET history == db'.stock[productId].movementHistory IN
            \A i \in 1..Len(history) :
                /\ history[i].quantity >= 1
                /\ history[i].movementType \in MovementTypes]_vars

\* the history of a product holds its initial quantity, the entry of a sale
\* and, after it, the return of that sale, the sale itself being deleted
C18_Witness ==
    \E productId \in DOMAIN db.stock :
        LET history == db.stock[productId].movementHistory IN
        /\ history # <<>>
        /\ history[1].movementType = "adjustment"
        /\ \E i, j \in 1..Len(history) :
            /\ 1 < i /\ i < j
            /\ history[i].movementType = "sale"
            /\ history[j].movementType = "return"
            /\ history[i].sourceDocument = history[j].sourceDocument
            /\ history[i].sourceDocument \notin DOMAIN db.sales
WorkflowOps ==
    {"createSale", "cancelSale", "createPurchase", "updatePurchase",
     "receivePurchase", "cancelPurchase"}

\* the user whose request takes the step of slot p
Actor(p) == IF req[p].pc = "idle" THEN req'[p].user ELSE req[p].user

\* the sales and purchases of user and the stock records of user's products
DataOf(d, user) ==
    [sales |-> [s \in {t \in DOMAIN d.sales : d.sales[t].createdBy = user}
                    |-> d.sales[s]],
     purchases |-> [i \in {j \in DOMAIN d.purchases :
                                d.purchases[j].createdBy = user}
                    |-> d.purchases[i]],
     stock |-> [productId \in {q \in DOMAIN d.stock :
                                q \in DOMAIN d.products
                                /\ d.products[q].createdBy = user}
                    |-> d.stock[productId]]]

\* C19: no step of a createSale, cancelSale, createPurchase, updatePurchase,
\* receivePurchase or cancelPurchase request of one user changes the sales,
\* the purchases or the stock records of the products of another user, and
\* a request that is turned away changes nothing at all.
C19_NoCrossTenantWrite ==
    [][/\ \A p \in Procs :
            (Acts(p) /\ (req[p].op \in WorkflowOps \/ req'[p].op \in WorkflowOps))
                => \A other \in Users \ {Actor(p)} :
                        DataOf(db', other) = DataOf(db, other)
       /\ (last'.early /\ last'.op \in WorkflowOps) => db' = db]_vars
StockReads == {"getAllStock", "getStockByProductId", "getStockMovement"}

\* C20: a response of getStockByProductId, getStockMovement or getAllStock
\* carries the stock record of a product only if the product belongs to the
\* user who made the request.
C20_StockReadsOwnerScoped ==
    last.op \in StockReads =>
        \A productId \in last.data :
            /\ productId \in DOMAIN db.products
            /\ db.products[productId].createdBy = last.by

\* C21: in every committed state each product has a stock record, the one
\* kept under the product's id, and each stock record is that of an existing
\* product: no operation leaves a product without its record or creates a
\* record for a product id that no product has.
C21_OneStockRecordPerProduct == DOMAIN db.stock = DOMAIN db.products

\* the highest number that the invoice numbers of the sales read as
HighestSuffix(sales) ==
    IF DOMAIN sales = {} THEN 0
    ELSE LET suffixes == {parseInt(sales[s].invoiceNumber) : s \in DOMAIN sales}
         IN CHOOSE n \in suffixes : \A m \in suffixes : m <= n

\* C22: a sale that createSale is given without invoiceNumber gets, from the
\* pre-save hook, the highest number among the invoice numbers of the sales
\* that exist plus one, written with at least six digits, and 000001 when
\* there is no sale, whatever the existing numbers are.
C22_InvoiceNumberIsHighestPlusOne ==
    [][\A p \in Procs :
        (/\ req[p].pc = "sale_presave"
         /\ req'[p].pc = "sale_insert"
         /\ req[p].body.invoiceNumber = <<>>)
            => req'[p].doc.invoiceNumber =
                    padStart(Digits(HighestSuffix(db.sales) + 1))]_vars

\* C23: a createSale turned away for insufficient stock gets the same
\* response, that of InsufficientStock, whether the pre-check found it or
\* the ledger found it inside the transaction.
C23_InsufficientStockSameKind ==
    (/\ last.op = "createSale"
     /\ last.result \in {"400:InsufficientStock", "err:InsufficientStock"})
        => Response(last) = "400:InsufficientStock"

\* C24: a createSale, cancelSale or receivePurchase that ends in failure,
\* turned away or with an error handed on, a storage error at any of its
\* steps included, leaves the collections as they were before the request, so
\* that making the request again applies no stock change a second time.
C24_FailureLeavesNothing ==
    [][/\ \A p \in Procs :
            (/\ req[p].op \in SessionOps
             /\ Finishes(p, req[p].pc)
             /\ last'.result \notin {"200", "201"}) => db' = db
       /\ (last'.early /\ last'.op \in SessionOps) => db' = db]_vars

\* C25: a createSale that its validation or its stock pre-check turns away
\* has not started a transaction: the transaction is opened only after every
\* item has passed.
C25_RejectedSaleStartsNoTransaction ==
    (last.op = "createSale" /\ last.early) => last.tx = "none"

\* C30: whenever a createSale, cancelSale or receivePurchase has answered,
\* on whatever path, its session is ended and its transaction was committed
\* or aborted.
C30_SessionEndedOnEveryExit ==
    last.op \in SessionOps =>
        /\ last.session = "ended"
        /\ last.tx \in {"committed", "aborted"}

\* ---- requests racing on one sale and one purchase ------------------------
\* what each product had before the sale
ContendStock == MaxItems * MaxQty + 1

\* u1 has the products, each created with ContendStock units, has made sale 1
\* and has ordered purchase 1, both with the same list of products
InitContend ==
    \E l \in ProductLists :
        LET items == [i \in 1..Len(l) |->
                        [product |-> l[i], quantity |-> MaxQty,
                         unitPrice |-> UnitPrice,
                         totalPrice |-> MaxQty * UnitPrice]]
            ordered == [i \in 1..Len(l) |->
                        [PlainPurchaseItem EXCEPT !.product = l[i]]]
            before == [productId \in ProductIds |->
                        NewStock(productId, ContendStock)]
        IN /\ db = [products |-> [productId \in ProductIds |->
                                    [createdBy |-> "u1", isActive |-> TRUE]],
                    stock |-> [productId \in ProductIds |->
                        [currentStock |->
                            ContendStock - SoldQuantity(items, productId, 1),
                         movementHistory |->
                            before[productId].movementHistory
                            \o SaleEntries(items, productId, 1, 1)]],
                    sales |-> (1 :> SaleDocument(SaleBody(items, "cash", 0),
                                                 "u1", <<>>)),
                    purchases |-> (1 :> PurchaseDocument(
                                    PurchaseBody(1, ordered, 1, "", "cash"), "u1"))]
           /\ req = [p \in Procs |-> IdleReq]
           /\ nreq = 0
           /\ last = NoAnswer
           /\ presale = (1 :> before)
           /\ calls = NoCalls
           /\ issued = {NextInvoiceNumber(<<>>)}

\* cancelSale, cancelPurchase and receivePurchase requests, interleaved at
\* their storage calls
NextContend ==
    \E p \in Procs :
        \/ cancelSale_find(p)
        \/ cancelSale_recordMovement(p)
        \/ cancelSale_delete(p)
        \/ cancelSale_commit(p)
        \/ cancelPurchase_find(p)
        \/ cancelPurchase_save(p)
        \/ receivePurchase_find(p)
        \/ receivePurchase_recordMovement(p)
        \/ receivePurchase_save(p)
        \/ receivePurchase_commit(p)

SpecContend == InitContend /\ [][NextContend]_vars

\* C26: with cancelPurchase and receivePurchase in flight on the same
\* ordered purchase, at most one of them takes effect: on every step a
\* cancelled purchase has no entry in the ledger, and a received purchase
\* stays received.
C26_CancelOrReceive ==
    [][\A purchaseId \in DOMAIN db.purchases :
        /\ db'.purchases[purchaseId].purchaseStatus = "cancelled"
            => \A productId \in DOMAIN db'.stock :
                LedgerOf(db'.stock[productId].movementHistory, purchaseId) = <<>>
        /\ db.purchases[purchaseId].purchaseStatus = "received"
            => db'.purchases[purchaseId].purchaseStatus = "received"]_vars

\* C27: with two receivePurchase requests in flight on the same ordered
\* purchase, its quantities are added to the stock once: the ledger holds
\* the purchase entries of the purchase once or not at all, once when the
\* purchase is received, and currentStock is the signed sum of the history.
C27_ReceivedOnce ==
    \A purchaseId \in DOMAIN db.purchases :
        \A productId \in DOMAIN db.stock :
            LET history == db.stock[productId].movementHistory
                entries == PurchaseEntries(db.purchases[purchaseId].items,
                                           productId, purchaseId, 1)
            IN /\ LedgerOf(history, purchaseId) \in {<<>>, entries}
               /\ db.purchases[purchaseId].purchaseStatus = "received"
                    => LedgerOf(history, purchaseId) = entries
               /\ db.stock[productId].currentStock = SignedSum(history, 1)

\* two receivePurchase requests had found the purchase ordered; one has
\* committed, the other then failed on its first write, and the quantities
\* are in the ledger once
C27_Witness ==
    /\ last.op = "receivePurchase"
    /\ last.result = "err:WriteConflict"
    /\ db.purchases[1].purchaseStatus = "received"
    /\ \E productId \in DOMAIN db.stock :
        /\ LedgerOf(db.stock[productId].movementHistory, 1) # <<>>
        /\ LedgerOf(db.stock[productId].movementHistory, 1) =
                PurchaseEntries(db.purchases[1].items, productId, 1, 1)

\* the quantities of the entries of the given type that sale saleId has in a
\* movement history
SaleQuantities(history, type, saleId) ==
    LET OfSale(entry) ==
            /\ entry.movementType = type
            /\ entry.sourceModel = "Sale"
            /\ entry.sourceDocument = saleId
        entries == SelectSeq(history, OfSale)
    IN [i \in 1..Len(entries) |-> entries[i].quantity]

\* C28: with two cancelSale requests in flight on the same sale, its
\* quantities are returned once: while the sale exists the ledger has no
\* return entry of it, once it is deleted the ledger has one return entry per
\* sale entry of it, with the same quantity, and currentStock is the signed
\* sum of the history; a cancelSale that does not find the sale changes
\* nothing.
C28_ReturnedOnce ==
    \A productId \in DOMAIN db.stock :
        LET history == db.stock[productId].movementHistory IN
        /\ db.stock[productId].currentStock = SignedSum(history, 1)
        /\ \A saleId \in DOMAIN presale \cup DOMAIN db.sales \cup {1} :
            SaleQuantities(history, "return", saleId) =
                IF saleId \in DOMAIN db.sales THEN <<>>
                ELSE SaleQuantities(history, "sale", saleId)

\* two cancelSale requests had found the sale; one has committed, the other
\* then failed on its first write, and the quantities are returned once
C28_Witness ==
    /\ last.op = "cancelSale"
    /\ last.result = "err:WriteConflict"
    /\ 1 \notin DOMAIN db.sales
    /\ \E productId \in DOMAIN db.stock :
        /\ SaleQuantities(db.stock[productId].movementHistory, "return", 1) # <<>>
        /\ SaleQuantities(db.stock[productId].movementHistory, "return", 1) =
                SaleQuantities(db.stock[productId].movementHistory, "sale", 1)

\* C29: a number that the hook generated for a committed sale is not
\* generated again: while every existing sale carries a generated number, the
\* number of a sale committed without a client's invoiceNumber is new and
\* above every number generated before, also after the sale with the
\* highest number was cancelled and deleted.
C29_InvoiceNumberNeverReused ==
    [][\A p \in Procs :
        (/\ Finishes(p, "sale_commit")
         /\ last'.result = "201"
         /\ req[p].body.invoiceNumber = <<>>
         /\ \A s \in DOMAIN db.sales : db.sales[s].invoiceNumber \in issued)
            => /\ req[p].doc.invoiceNumber \notin issued
               /\ \A number \in issued :
                    parseInt(number) < parseInt(req[p].doc.invoiceNumber)]_vars
====
